---- MODULE Spec2Model ----
(***************************************************************************)
(* Model of src/src/subnet/validator/validator.py: VeloraValidator's       *)
(* validation_loop / validate_step (registry query, concurrent polling of  *)
(* the miners, majority-hash selection, spot check, save, scoring) and the *)
(* module-level set_weights / cut_to_max_allowed_weights.                  *)
(*                                                                         *)
(* Python values are modelled by records with uniform fields:              *)
(*   None                     -> NoneAnswer  (present = FALSE)             *)
(*   a decoded reply (dict)   -> present = TRUE, with has_hash / has_data  *)
(*                               telling whether the key is in the dict    *)
(*   an ordered dict          -> a sequence of <<key, value>> pairs        *)
(*   a raised exception       -> its class name in `fault`                 *)
(* Scores are rationals k / ScoreDen, held as the integer k.               *)
(*                                                                         *)
(* Spec is validation_loop with its rounds; SpecStore is the task store    *)
(* (get_miner_prompt, save_pool_data) under every way a round can return;  *)
(* SpecWeights, SpecLatency and SpecScoreMiner apply set_weights, the      *)
(* latency stage of score_miners and _score_miner to every bounded input.  *)
(***************************************************************************)
EXTENDS Integers, Sequences, FiniteSets, TLC

\* ---------------------------------------------------------------- bounds
\* number of modules registered in the subnet (modules_keys)
MaxWorkers == 3
\* number of entries of a score_dict handed to set_weights
MaxScored == 3
\* scores are k / ScoreDen, k \in 0..ScoreDen  (scores in [0, 1])
ScoreDen == 4
\* settings.max_allowed_weights ranges over 1..MaxAllowedWeights
MaxAllowedWeights == 3

\* settings.iteration_interval, in clock ticks
iteration_interval == 2
\* a round lasts 0..MaxElapsed clock ticks
MaxElapsed == 3

\* a reply's process_time is 1..MaxTime seconds
MaxTime == 3

\* the timetable holds at most MaxRanges time ranges
MaxRanges == 3
\* at most MaxNewPairs pools are created within one time range
MaxNewPairs == 2

\* a payload handed to _score_miner holds at most MaxRecords records
MaxRecords == 2

\* ------------------------------------------------------ program constants
\* ThreadPoolExecutor(max_workers=8)
max_workers == 8
\* ANSWER_CHECK_COUNT = 10
ANSWER_CHECK_COUNT == 10
\* weight = int(score * 1000 / scores)
WeightScale == 1000

VARIABLES
    pc,                  \* position of validation_loop / validate_step
    fault,               \* exception that left validate_step ("none" if none)
    round_end,           \* how the last finished round returned
    modules_info,        \* worker list: uids of modules_info, in dict order
    futures,             \* one future per submitted _get_miner_prediction call
    miner_answers,       \* miner_answers = [*it], once the pool is joined
    miner_results,       \* items the zip iterator still has to yield
    zipped,              \* every pair the zip of this round is made of
    most_common_hash,
    trust_miner_results,
    check_count,         \* completed iterations of check_miner_answer's loop
    saved,               \* payloads save_pool_data was called with this round
    score_dict,          \* score mapping (score_miners result / set_weights input)
    max_allowed_weights, \* settings.max_allowed_weights
    vote_calls,          \* weight mappings client.vote was called with
    completed_out_of_order, \* a call finished before one listed earlier
    drawn,               \* records random.choice drew in check_miner_answer
    elapsed,             \* elapsed of lines 535-536, for the round just ended
    sleep_time,          \* time slept after the round just ended
    timetable,           \* task store: the time ranges with their token pairs
    pool_data,           \* task store: token pairs whose pool data is stored
    miner_prompt,        \* the task get_miner_prompt returned for this round
    store_before,        \* the task store as it was when the round began
    call_args,           \* arguments of a function applied on its own
    call_result          \* what that function returned or raised

\* the round's pacing
paceVars == <<elapsed, sleep_time>>
\* the task store and the round's task
storeVars == <<timetable, pool_data, miner_prompt, store_before>>
\* a function applied on its own
callVars == <<call_args, call_result>>

vars == <<pc, fault, round_end, modules_info, futures, miner_answers,
          miner_results, zipped, most_common_hash, trust_miner_results,
          check_count, saved, score_dict, max_allowed_weights, vote_calls,
          completed_out_of_order, drawn, paceVars, storeVars, callVars>>

\* ------------------------------------------------------------ data values
NoHash == "-"
Hashes == {"H1", "H2"}

\* records of a payload: block_number 0 stands for a record without the key
NoBlock == 0
RecMatch == [block_number |-> 1, transaction_hash |-> "tx1"]
RecMiss == [block_number |-> 2, transaction_hash |-> "txX"]
RecOut == [block_number |-> 9, transaction_hash |-> "tx9"]
RecNoBlock == [block_number |-> NoBlock, transaction_hash |-> "tx1"]

NoneAnswer ==
    [present |-> FALSE, has_hash |-> FALSE, overall_data_hash |-> NoHash,
     has_data |-> FALSE, data |-> <<>>]

Dict(h, hasData, d) ==
    [present |-> TRUE, has_hash |-> h # NoHash, overall_data_hash |-> h,
     has_data |-> hasData, data |-> d]

\* the reply bodies a miner may send as a JSON object
Bodies ==
    { Dict("H1", TRUE, <<RecMatch, RecMiss>>),
      Dict("H1", FALSE, <<>>),
      Dict("H2", TRUE, <<RecMiss, RecOut, RecNoBlock>>),
      Dict("H2", TRUE, <<>>),
      Dict(NoHash, TRUE, <<RecMatch>>) }

\* what one call to a miner can meet
FailureKinds == {"transport_error", "timeout", "undecodable", "non_object"}
Responses ==
    [kind : FailureKinds, body : {NoneAnswer}] \cup [kind : {"object"}, body : Bodies]

NoResponse == [kind |-> "-", body |-> NoneAnswer]

\* ------------------------------------------------- _get_miner_prediction
\* try: client.call (transport error / timeout raise), json.loads (raises on
\* an undecodable body), miner_answer["process_time"] = ... (raises TypeError
\* on a body that is no JSON object); except Exception: miner_answer = None.
\* faulty variant: the process_time assignment sits outside the try block
GetMinerPredictionLeaky(resp) ==
    IF resp.kind = "object"
    THEN [raised |-> FALSE, value |-> resp.body]
    ELSE IF resp.kind = "non_object"
    THEN [raised |-> TRUE, value |-> NoneAnswer]
    ELSE [raised |-> FALSE, value |-> NoneAnswer]

GetMinerPrediction(resp) ==
    IF resp.kind = "object"
    THEN [raised |-> FALSE, value |-> resp.body]
    ELSE [raised |-> FALSE, value |-> NoneAnswer]

\* ------------------------------------------------------------- futures
Queued == [state |-> "queued", resp |-> NoResponse,
           result |-> [raised |-> FALSE, value |-> NoneAnswer]]

Running(S) == {i \in DOMAIN S : S[i].state = "running"}

\* faulty variant: the poll returns on the first outcome
PollCompleteFirst(futs) == \E i \in DOMAIN futs : futs[i].state = "done"

\* [*it] blocks on every future in turn and the with-block's exit joins the
\* pool (shutdown(wait=True)): control passes line 494 only when every call
\* has an outcome
PollComplete(futs) == \A i \in DOMAIN futs : futs[i].state = "done"

\* faulty variant: failed calls are dropped from the result list
MapResultsAnswered(results) == SelectSeq(results, LAMBDA a : a.present)

\* miner_answers = [*it]: the results, in the order the calls were submitted
MapResults(results) == results

\* zip(modules_info.keys(), miner_answers)
Zip(keys, answers) ==
    LET n == IF Len(keys) < Len(answers) THEN Len(keys) ELSE Len(answers)
    IN  [i \in 1..n |-> <<keys[i], answers[i]>>]

\* ------------------------------------------------------------------ Init
\* the locals of validate_step before the round has created any of them
NoPair == 0
NoPrompt == [token_pair |-> NoPair, start |-> 0, end |-> 0]

\* no function is being applied on its own
NoCall ==
    /\ call_args = <<>>
    /\ call_result = [fault |-> "none", value |-> <<>>]

\* the task store is left aside
NoStore ==
    /\ timetable = <<>>
    /\ pool_data = <<>>
    /\ miner_prompt = NoPrompt
    /\ store_before = [timetable |-> <<>>, pool_data |-> <<>>]

RoundReset ==
    /\ futures = <<>>
    /\ miner_answers = <<>>
    /\ miner_results = <<>>
    /\ zipped = <<>>
    /\ most_common_hash = NoHash
    /\ trust_miner_results = <<>>
    /\ check_count = 0
    /\ saved = <<>>
    /\ score_dict = <<>>
    /\ vote_calls = <<>>
    /\ completed_out_of_order = FALSE
    /\ drawn = <<>>
    /\ elapsed = 0
    /\ sleep_time = 0

Init ==
    /\ pc = "loop"
    /\ fault = "none"
    /\ round_end = "none"
    /\ modules_info = <<>>
    /\ max_allowed_weights = MaxAllowedWeights
    /\ RoundReset
    /\ NoStore
    /\ NoCall

\* -------------------------------------------------------- sequence helpers
\* overall_hashes.count(h)
Count(S, h) == Cardinality({i \in DOMAIN S : S[i] = h})

\* ascending sequence of the members of a set of integers
RECURSIVE SortedSeq(_)
SortedSeq(S) ==
    IF S = {} THEN <<>>
    ELSE LET m == CHOOSE x \in S : \A y \in S : x <= y
         IN  <<m>> \o SortedSeq(S \ {m})

\* ------------------------------------------------- validate_step, 470-494
\* the validator's key is not among modules_keys.values(): RuntimeError
StartRoundUnregistered ==
    /\ pc = "loop"
    /\ pc' = "terminated"
    /\ fault' = "RuntimeError"
    /\ round_end' = "none"
    /\ modules_info' = <<>>
    /\ futures' = <<>>
    /\ miner_answers' = <<>>
    /\ miner_results' = <<>>
    /\ zipped' = <<>>
    /\ most_common_hash' = NoHash
    /\ trust_miner_results' = <<>>
    /\ check_count' = 0
    /\ saved' = <<>>
    /\ score_dict' = <<>>
    /\ vote_calls' = <<>>
    /\ completed_out_of_order' = FALSE
    /\ UNCHANGED max_allowed_weights
    /\ drawn' = <<>>
    /\ elapsed' = 0
    /\ sleep_time' = 0
    /\ UNCHANGED <<storeVars, callVars>>

\* modules_info keeps, in modules_keys order, the modules whose address
\* get_ip_port could parse; one call per entry is submitted to the pool
StartRound ==
    /\ pc = "loop"
    /\ \E withAddr \in SUBSET (1..MaxWorkers) :
          /\ modules_info' = SortedSeq(withAddr)
          /\ futures' = [i \in 1..Cardinality(withAddr) |-> Queued]
    /\ pc' = "poll"
    /\ round_end' = "none"
    /\ miner_answers' = <<>>
    /\ miner_results' = <<>>
    /\ zipped' = <<>>
    /\ most_common_hash' = NoHash
    /\ trust_miner_results' = <<>>
    /\ check_count' = 0
    /\ saved' = <<>>
    /\ score_dict' = <<>>
    /\ vote_calls' = <<>>
    /\ completed_out_of_order' = FALSE
    /\ UNCHANGED <<fault, max_allowed_weights>>
    /\ drawn' = <<>>
    /\ elapsed' = 0
    /\ sleep_time' = 0
    /\ UNCHANGED <<storeVars, callVars>>

\* a pool thread takes the oldest queued call (at most max_workers run)
StartCall(i) ==
    /\ i \in DOMAIN futures
    /\ futures[i].state = "queued"
    /\ \A j \in 1..(i - 1) : futures[j].state # "queued"
    /\ Cardinality(Running(futures)) < max_workers
    /\ futures' = [futures EXCEPT ![i].state = "running"]
    /\ UNCHANGED <<pc, fault, round_end, modules_info, miner_answers,
                   miner_results, zipped, most_common_hash, trust_miner_results,
                   check_count, saved, score_dict, max_allowed_weights,
                   vote_calls, completed_out_of_order>>
    /\ UNCHANGED <<drawn, paceVars, storeVars, callVars>>

\* the call of worker i ends: whatever the miner or the network did,
\* _get_miner_prediction turns it into the future's outcome
CompleteCall(i) ==
    /\ i \in DOMAIN futures
    /\ futures[i].state = "running"
    /\ \E resp \in Responses :
          futures' = [futures EXCEPT ![i] =
                         [state |-> "done", resp |-> resp,
                          result |-> GetMinerPrediction(resp)]]
    /\ completed_out_of_order' =
          (completed_out_of_order \/ \E j \in 1..(i - 1) : futures[j].state # "done")
    /\ UNCHANGED <<pc, fault, round_end, modules_info, miner_answers,
                   miner_results, zipped, most_common_hash, trust_miner_results,
                   check_count, saved, score_dict, max_allowed_weights, vote_calls>>
    /\ UNCHANGED <<drawn, paceVars, storeVars, callVars>>

\* lines 492-494 return: miner_answers holds one result per call, in call
\* order; an exception stored in a future is re-raised by the iterator
JoinPoll ==
    /\ pc = "poll"
    /\ PollComplete(futures)
    /\ IF \E i \in DOMAIN futures : futures[i].result.raised
       THEN /\ pc' = "terminated"
            /\ fault' = "Exception"
            /\ UNCHANGED miner_answers
       ELSE /\ pc' = "select"
            /\ miner_answers' =
                  MapResults([i \in DOMAIN futures |-> futures[i].result.value])
            /\ UNCHANGED fault
    /\ UNCHANGED <<round_end, modules_info, futures, miner_results, zipped,
                   most_common_hash, trust_miner_results, check_count, saved,
                   score_dict, max_allowed_weights, vote_calls,
                   completed_out_of_order>>
    /\ UNCHANGED <<drawn, paceVars, storeVars, callVars>>

\* ------------------------------------------------- validate_step, 496-506
\* line 500 subscripts every non-None answer: KeyError when the key is absent
HashKeyError(answers) ==
    \E i \in DOMAIN answers : answers[i].present /\ ~answers[i].has_hash

\* overall_hashes = [a['overall_data_hash'] for a in miner_answers if a != None]
OverallHashes(answers) ==
    LET given == SelectSeq(answers, LAMBDA a : a.present)
    IN  [i \in DOMAIN given |-> given[i].overall_data_hash]

\* max(set(overall_hashes), key=overall_hashes.count): max keeps the first
\* maximal element it meets, and a set of str is iterated in an order that
\* depends on the process's string hashing: any hash of maximal count can win
MostCommonHashes(overall_hashes) ==
    LET hs == {overall_hashes[i] : i \in DOMAIN overall_hashes}
    IN  {h \in hs : \A g \in hs : Count(overall_hashes, g) <= Count(overall_hashes, h)}

\* faulty variant: the hash comparison is missing from the filter
TrustMinerResultsAll(results, h) == SelectSeq(results, LAMBDA p : p[2].present)

\* [(key, a) for key, a in miner_results if a != None and a[hash] == most_common_hash]
TrustMinerResults(results, h) ==
    SelectSeq(results, LAMBDA p : p[2].present /\ p[2].overall_data_hash = h)

\* miner_results is a zip object: always truthy, so line 497 never returns;
\* the comprehension of line 506 exhausts it
SelectConsensus ==
    /\ pc = "select"
    /\ zipped' = Zip(modules_info, miner_answers)
    /\ IF HashKeyError(miner_answers)
       THEN /\ pc' = "terminated"
            /\ fault' = "KeyError"
            /\ miner_results' = zipped'
            /\ UNCHANGED <<round_end, most_common_hash, trust_miner_results>>
       ELSE IF OverallHashes(miner_answers) = <<>>
       THEN /\ pc' = "pace"
            /\ round_end' = "no_valid_answer"
            /\ miner_results' = zipped'
            /\ UNCHANGED <<fault, most_common_hash, trust_miner_results>>
       ELSE /\ \E h \in MostCommonHashes(OverallHashes(miner_answers)) :
                  /\ most_common_hash' = h
                  /\ trust_miner_results' = TrustMinerResults(zipped', h)
            /\ miner_results' = <<>>
            /\ pc' = "check"
            /\ UNCHANGED <<fault, round_end>>
    /\ UNCHANGED <<modules_info, futures, miner_answers, check_count, saved,
                   score_dict, max_allowed_weights, vote_calls,
                   completed_out_of_order>>
    /\ UNCHANGED <<drawn, paceVars, storeVars, callVars>>

\* ---------------------------------------------------- check_miner_answer
\* the oracle: get_block_number_range and get_pool_events_by_token_pairs
block_number_start == 1
block_number_end == 2
OracleEvents(block_number) ==
    IF block_number = 1 THEN {"tx1"} ELSE IF block_number = 2 THEN {"tx2"} ELSE {}

\* faulty variant: a block number outside the boundary is not a reason to stop
CheckRecordNoBoundary(block_data) ==
    IF block_data.block_number = NoBlock THEN "reject"
    ELSE IF block_data.transaction_hash \in OracleEvents(block_data.block_number)
    THEN "accept"
    ELSE "next"

\* one iteration of the loop on the drawn record
CheckRecord(block_data) ==
    IF block_data.block_number = NoBlock THEN "reject"
    ELSE IF \/ block_data.block_number < block_number_start
            \/ block_data.block_number > block_number_end THEN "reject"
    ELSE IF block_data.transaction_hash \in OracleEvents(block_data.block_number)
    THEN "accept"
    ELSE "next"

\* faulty variant: the return after a rejected answer is missing
AfterCheckNoReturn(accepted) == "save"

\* lines 508-512: a rejected answer returns from validate_step
AfterCheck(accepted) == IF accepted THEN "save" ELSE "pace"

\* faulty variant: the first reply received is taken, whatever its hash
FirstAnswer == SelectSeq(miner_answers, LAMBDA a : a.present)[1]

\* the answer handed to check_miner_answer, save_pool_data and score_miners
TrustAnswer == trust_miner_results[1][2]

CheckFrame ==
    UNCHANGED <<modules_info, futures, miner_answers, miner_results, zipped,
                most_common_hash, trust_miner_results, saved, score_dict,
                max_allowed_weights, vote_calls, completed_out_of_order,
                paceVars, storeVars, callVars>>

\* miner_answer.get("data") is None: return False
CheckMissingData ==
    /\ pc = "check"
    /\ ~TrustAnswer.has_data
    /\ pc' = AfterCheck(FALSE)
    /\ round_end' = "not_valid"
    /\ UNCHANGED <<fault, check_count, drawn>>
    /\ CheckFrame

\* random.choice of an empty sequence raises IndexError
CheckEmptyData ==
    /\ pc = "check"
    /\ TrustAnswer.has_data
    /\ TrustAnswer.data = <<>>
    /\ pc' = "terminated"
    /\ fault' = "IndexError"
    /\ UNCHANGED <<round_end, check_count, drawn>>
    /\ CheckFrame

\* one draw of the loop; the ANSWER_CHECK_COUNT-th miss ends it with False
CheckDraw ==
    /\ pc = "check"
    /\ TrustAnswer.has_data
    /\ \E k \in DOMAIN TrustAnswer.data :
          LET verdict == CheckRecord(TrustAnswer.data[k])
          IN  /\ drawn' = Append(drawn, TrustAnswer.data[k])
              /\ IF verdict = "accept"
                 THEN /\ pc' = AfterCheck(TRUE)
                      /\ UNCHANGED <<round_end, check_count>>
                 ELSE IF verdict = "reject" \/ check_count + 1 = ANSWER_CHECK_COUNT
                 THEN /\ pc' = AfterCheck(FALSE)
                      /\ round_end' = "not_valid"
                      /\ UNCHANGED check_count
                 ELSE /\ check_count' = check_count + 1
                      /\ UNCHANGED <<pc, round_end>>
    /\ UNCHANGED fault
    /\ CheckFrame

\* -------------------------------------------------------- save_pool_data
SavePoolData ==
    /\ pc = "save"
    /\ saved' = Append(saved, TrustAnswer)
    /\ pc' = "score"
    /\ UNCHANGED <<fault, round_end, modules_info, futures, miner_answers,
                   miner_results, zipped, most_common_hash, trust_miner_results,
                   check_count, score_dict, max_allowed_weights, vote_calls,
                   completed_out_of_order>>
    /\ UNCHANGED <<drawn, paceVars, storeVars, callVars>>

\* ---------------------------------------------------------- score_miners
\* Line 442 calls _score_miner(miner_answer, trust_miner_result): the method
\* takes (miner_prompt, miner_answer, ground_truth), so the first answered
\* entry raises TypeError.  With no answered entry, line 448 subscripts None
\* (TypeError) if there is any entry, and line 449 takes max() of an empty
\* sequence (ValueError) if there is none.
ScoreMiners(results, trust_miner_result) ==
    IF \E i \in DOMAIN results : results[i][2].present
    THEN [fault |-> "TypeError", scores |-> <<>>]
    ELSE IF results # <<>>
    THEN [fault |-> "TypeError", scores |-> <<>>]
    ELSE [fault |-> "ValueError", scores |-> <<>>]

\* ----------------------------------------------- cut_to_max_allowed_weights
\* faulty variant: of two equal scores the later one is put first
RECURSIVE SortedLaterTieFirst(_)
SortedLaterTieFirst(items) ==
    IF items = <<>> THEN <<>>
    ELSE LET n == Len(items)
             x == items[n]
             front == SortedLaterTieFirst(SubSeq(items, 1, n - 1))
             p == Cardinality({i \in DOMAIN front : front[i][2] > x[2]})
         IN  SubSeq(front, 1, p) \o <<x>> \o SubSeq(front, p + 1, Len(front))

\* sorted(..., key=score, reverse=True) is stable: equal scores keep their order
RECURSIVE SortedByScore(_)
SortedByScore(items) ==
    IF items = <<>> THEN <<>>
    ELSE LET n == Len(items)
             x == items[n]
             front == SortedByScore(SubSeq(items, 1, n - 1))
             p == Cardinality({i \in DOMAIN front : front[i][2] >= x[2]})
         IN  SubSeq(front, 1, p) \o <<x>> \o SubSeq(front, p + 1, Len(front))

CutToMaxAllowedWeights(scoreDict, maxAllowed) ==
    LET sorted_scores == SortedByScore(scoreDict)
    IN  SubSeq(sorted_scores, 1,
               IF maxAllowed < Len(sorted_scores) THEN maxAllowed
               ELSE Len(sorted_scores))

\* ------------------------------------------------------------ set_weights
RECURSIVE SumScores(_)
\* sum(score_dict.values())
SumScores(items) ==
    IF items = <<>> THEN 0 ELSE items[1][2] + SumScores(Tail(items))

\* faulty variant: zero weights are not filtered out
KeepZeroWeights(weighted_scores) == weighted_scores

\* weighted_scores = {k: v for k, v in weighted_scores.items() if v != 0}
DropZeroWeights(weighted_scores) == SelectSeq(weighted_scores, LAMBDA e : e[2] # 0)

\* the mapping handed to client.vote, or the ZeroDivisionError of line 84;
\* a score k / ScoreDen over a sum s / ScoreDen gives int(1000 * k / s)
SetWeights(scoreDict, maxAllowed) ==
    LET cut == CutToMaxAllowedWeights(scoreDict, maxAllowed)
        scores == SumScores(cut)
    IN  IF cut # <<>> /\ scores = 0
        THEN [fault |-> "ZeroDivisionError", weights |-> <<>>]
        ELSE [fault |-> "none",
              weights |-> DropZeroWeights(
                  [i \in DOMAIN cut |->
                      <<cut[i][1], (cut[i][2] * WeightScale) \div scores>>])]

\* ------------------------------------------------- validate_step, 514-521
ScoreAndVote ==
    /\ pc = "score"
    /\ LET scored == ScoreMiners(miner_results, TrustAnswer)
           voted == SetWeights(scored.scores, max_allowed_weights)
       IN  IF scored.fault # "none"
           THEN /\ pc' = "terminated"
                /\ fault' = scored.fault
                /\ UNCHANGED <<round_end, score_dict, vote_calls>>
           ELSE IF scored.scores = <<>>
           THEN /\ pc' = "pace"
                /\ round_end' = "no_scores"
                /\ score_dict' = scored.scores
                /\ UNCHANGED <<fault, vote_calls>>
           ELSE IF voted.fault # "none"
           THEN /\ pc' = "terminated"
                /\ fault' = voted.fault
                /\ score_dict' = scored.scores
                /\ UNCHANGED <<round_end, vote_calls>>
           ELSE /\ pc' = "pace"
                /\ round_end' = "voted"
                /\ score_dict' = scored.scores
                /\ vote_calls' = Append(vote_calls, voted.weights)
                /\ UNCHANGED fault
    /\ UNCHANGED <<modules_info, futures, miner_answers, miner_results, zipped,
                   most_common_hash, trust_miner_results, check_count, saved,
                   max_allowed_weights, completed_out_of_order>>
    /\ UNCHANGED <<drawn, paceVars, storeVars, callVars>>

\* faulty variant: the loop sleeps a whole interval after every round
SleepTimeWholeInterval(roundTime, interval) == interval

\* -------------------------------------------------------- validation_loop
\* lines 535-539: the round returned; sleep out the interval, loop again.
\* There is no try/except around validate_step: an exception ends the loop.
\* lines 536-539: sleep what is left of the interval, nothing if none is left
SleepTime(roundTime, interval) ==
    IF roundTime < interval THEN interval - roundTime ELSE 0

Pace ==
    /\ pc = "pace"
    /\ pc' = "loop"
    /\ \E roundTime \in 0..MaxElapsed :
          /\ elapsed' = roundTime
          /\ sleep_time' = SleepTime(roundTime, iteration_interval)
    /\ UNCHANGED <<fault, round_end, modules_info, futures, miner_answers,
                   miner_results, zipped, most_common_hash, trust_miner_results,
                   check_count, saved, score_dict, max_allowed_weights,
                   vote_calls, completed_out_of_order>>
    /\ UNCHANGED <<drawn, storeVars, callVars>>

Next ==
    \/ StartRoundUnregistered
    \/ StartRound
    \/ \E i \in 1..(MaxWorkers + 1) : StartCall(i)
    \/ \E i \in 1..(MaxWorkers + 1) : CompleteCall(i)
    \/ JoinPoll
    \/ SelectConsensus
    \/ CheckMissingData
    \/ CheckEmptyData
    \/ CheckDraw
    \/ SavePoolData
    \/ ScoreAndVote
    \/ Pace

Spec == Init /\ [][Next]_vars

\* ------------------------------------------- set_weights as a function
\* every ordered score mapping of at most MaxScored distinct uids
ScoreEntries == (1..MaxScored) \X (0..ScoreDen)
ScoreDicts ==
    {d \in UNION {[1..n -> ScoreEntries] : n \in 0..MaxScored} :
        \A i, j \in DOMAIN d : i # j => d[i][1] # d[j][1]}

InitWeights ==
    /\ pc = "set_weights"
    /\ fault = "none"
    /\ round_end = "none"
    /\ modules_info = <<>>
    /\ max_allowed_weights \in 1..MaxAllowedWeights
    /\ futures = <<>>
    /\ miner_answers = <<>>
    /\ miner_results = <<>>
    /\ zipped = <<>>
    /\ most_common_hash = NoHash
    /\ trust_miner_results = <<>>
    /\ check_count = 0
    /\ saved = <<>>
    /\ score_dict \in ScoreDicts
    /\ vote_calls = <<>>
    /\ completed_out_of_order = FALSE
    /\ drawn = <<>>
    /\ elapsed = 0
    /\ sleep_time = 0
    /\ NoStore
    /\ NoCall

\* set_weights(settings, score_dict, ...): lines 72-96
SetWeightsCall ==
    /\ pc = "set_weights"
    /\ LET voted == SetWeights(score_dict, max_allowed_weights)
       IN  IF voted.fault # "none"
           THEN /\ pc' = "terminated"
                /\ fault' = voted.fault
                /\ UNCHANGED vote_calls
           ELSE /\ pc' = "voted"
                /\ vote_calls' = Append(vote_calls, voted.weights)
                /\ UNCHANGED fault
    /\ UNCHANGED <<round_end, modules_info, futures, miner_answers,
                   miner_results, zipped, most_common_hash, trust_miner_results,
                   check_count, saved, score_dict, max_allowed_weights,
                   completed_out_of_order>>
    /\ UNCHANGED <<drawn, paceVars, storeVars, callVars>>

NextWeights == SetWeightsCall

SpecWeights == InitWeights /\ [][NextWeights]_vars

\* ------------------------------ score_miners, lines 448-451, as a function
\* the frame of a function applied on its own
CallFrame ==
    UNCHANGED <<fault, round_end, modules_info, futures, miner_answers,
                miner_results, zipped, most_common_hash, trust_miner_results,
                check_count, saved, score_dict, max_allowed_weights, vote_calls,
                completed_out_of_order, drawn, paceVars, storeVars, call_args>>

\* the state before a function is applied on its own
CallInit ==
    /\ fault = "none"
    /\ round_end = "none"
    /\ modules_info = <<>>
    /\ max_allowed_weights = MaxAllowedWeights
    /\ RoundReset
    /\ NoStore
    /\ call_result = [fault |-> "none", value |-> <<>>]

Raised(exception) == [fault |-> exception, value |-> <<>>]
Returned(v) == [fault |-> "none", value |-> v]

\* max(...) and min(...) of the process times
MaxOf(S) == CHOOSE x \in S : \A y \in S : y <= x
MinOf(S) == CHOOSE x \in S : \A y \in S : x <= y

\* lines 448-451 on the entries <<uid, reply>> of miner_results: line 448
\* subscripts every reply (TypeError on None), max() of no value raises
\* ValueError, and line 451 divides by max_time - min_time.  A latency score
\* 1 - 0.5 * (t - min) / (max - min) is held as <<uid, num, den>>.
ProcessTimeScore(results) ==
    IF \E i \in DOMAIN results : ~results[i][2].present THEN Raised("TypeError")
    ELSE IF results = <<>> THEN Raised("ValueError")
    ELSE LET times == {results[i][2].process_time : i \in DOMAIN results}
             max_time == MaxOf(times)
             min_time == MinOf(times)
         IN  IF max_time - min_time = 0 THEN Raised("ZeroDivisionError")
             ELSE Returned([i \in DOMAIN results |->
                     <<results[i][1],
                       2 * (max_time - min_time) - (results[i][2].process_time - min_time),
                       2 * (max_time - min_time)>>])

\* replies as score_miners reads them at line 448: None or a process_time
TimedReplies ==
    {[present |-> FALSE, process_time |-> 0]}
        \cup [present : {TRUE}, process_time : 1..MaxTime]
LatencyInputs ==
    UNION {[1..n -> TimedReplies] : n \in 0..MaxScored}

InitLatency ==
    /\ pc = "latency"
    /\ call_args \in {[i \in DOMAIN d |-> <<i, d[i]>>] : d \in LatencyInputs}
    /\ CallInit

ProcessTimeScoreCall ==
    /\ pc = "latency"
    /\ call_result' = ProcessTimeScore(call_args)
    /\ pc' = IF call_result'.fault = "none" THEN "returned" ELSE "raised"
    /\ CallFrame

NextLatency == ProcessTimeScoreCall

SpecLatency == InitLatency /\ [][NextLatency]_vars

\* ------------------------------------------ _score_miner as a function
\* _score_miner(miner_prompt, miner_answer, ground_truth), lines 273-282:
\* None scores 0; miner_answer["data"] and ground_truth["data"] raise KeyError
\* when the key is missing; ground_truth["data"][i] raises IndexError when the
\* ground truth is shorter; (...) / cnt_all raises ZeroDivisionError when the
\* payload has no record; otherwise float ^ int raises TypeError
ScoreMiner(miner_answer, ground_truth) ==
    IF ~miner_answer.present THEN Returned(0)
    ELSE IF ~miner_answer.has_data THEN Raised("KeyError")
    ELSE IF miner_answer.data # <<>> /\ ~ground_truth.has_data THEN Raised("KeyError")
    ELSE IF Len(miner_answer.data) > Len(ground_truth.data) THEN Raised("IndexError")
    ELSE IF Len(miner_answer.data) = 0 THEN Raised("ZeroDivisionError")
    ELSE Raised("TypeError")

\* the payloads: no "data" key, or up to MaxRecords records
Payloads ==
    {Dict("H1", FALSE, <<>>)} \cup
    {Dict("H1", TRUE, d) :
        d \in UNION {[1..n -> {RecMatch, RecMiss, RecOut}] : n \in 0..MaxRecords}}

InitScoreMiner ==
    /\ pc = "score_miner"
    /\ call_args \in [miner_answer : {NoneAnswer} \cup Payloads,
                      ground_truth : Payloads]
    /\ CallInit

ScoreMinerCall ==
    /\ pc = "score_miner"
    /\ call_result' = ScoreMiner(call_args.miner_answer, call_args.ground_truth)
    /\ pc' = IF call_result'.fault = "none" THEN "returned" ELSE "raised"
    /\ CallFrame

NextScoreMiner == ScoreMinerCall

SpecScoreMiner == InitScoreMiner /\ [][NextScoreMiner]_vars

\* ------------------------------------------------- the task store (DBManager)
\* A time range is [start, end, completed, token_pairs]; its token_pairs are
\* [pair, completed] in insertion order.  Times are days since 2021-05-04.
RangeIndex(tt, start, end) ==
    CHOOSE i \in DOMAIN tt : tt[i].start = start /\ tt[i].end = end

AddTimetableEntry(tt, start, end) ==
    Append(tt, [start |-> start, end |-> end, completed |-> FALSE,
                token_pairs |-> <<>>])

FetchTokenPairs(tt, start, end) ==
    LET ps == tt[RangeIndex(tt, start, end)].token_pairs
    IN  [k \in DOMAIN ps |-> ps[k].pair]

AddTokenPairs(tt, start, end, pairs) ==
    [tt EXCEPT ![RangeIndex(tt, start, end)].token_pairs =
        @ \o [k \in DOMAIN pairs |-> [pair |-> pairs[k], completed |-> FALSE]]]

FetchIncompletedTimeRange(tt) == SelectSeq(tt, LAMBDA r : ~r.completed)

FetchIncompletedTokenPairs(tt, start, end) ==
    SelectSeq(tt[RangeIndex(tt, start, end)].token_pairs, LAMBDA t : ~t.completed)

MarkTimeRangeAsComplete(tt, start, end) ==
    [tt EXCEPT ![RangeIndex(tt, start, end)].completed = TRUE]

MarkTokenPairAsComplete(tt, start, end, pair) ==
    LET i == RangeIndex(tt, start, end)
    IN  [tt EXCEPT ![i].token_pairs =
            [k \in DOMAIN @ |-> IF @[k].pair = pair
                                THEN [@[k] EXCEPT !.completed = TRUE]
                                ELSE @[k]]]

\* ------------------------------------ add_new_time_range .. get_miner_prompt
\* the pools get_pool_created_events_between_two_timestamps reports for the
\* range starting at `start`: n pools, never seen before
CreatedPairs(start, n) == [k \in 1..n |-> start * (MaxNewPairs + 1) + k]

\* add_new_time_range: a range of one day after the last one, holding the
\* last range's token pairs and the pools created within it
AddNewTimeRange(tt, n) ==
    LET start == IF tt = <<>> THEN 0 ELSE tt[Len(tt)].end
        end == start + 1
        added == AddTimetableEntry(tt, start, end)
        copied == IF tt = <<>> THEN added
                  ELSE AddTokenPairs(added, start, end,
                           FetchTokenPairs(tt, tt[Len(tt)].start, tt[Len(tt)].end))
    IN  [timetable |-> AddTokenPairs(copied, start, end, CreatedPairs(start, n)),
         start |-> start, end |-> end]

\* faulty variant: a new range is added whether or not one is incomplete
GetTimeRangeAlwaysNew(tt, n) == AddNewTimeRange(tt, n)

\* get_time_range: the first incomplete range, or a new one
GetTimeRange(tt, n) ==
    LET incompleted_time_range == FetchIncompletedTimeRange(tt)
    IN  IF incompleted_time_range = <<>>
        THEN AddNewTimeRange(tt, n)
        ELSE [timetable |-> tt, start |-> incompleted_time_range[1].start,
              end |-> incompleted_time_range[1].end]

\* faulty variant: the token pair is marked complete when it is handed out
GetTokenPairMarking(tt, start, end) ==
    LET token_pairs == FetchIncompletedTokenPairs(tt, start, end)
    IN  IF token_pairs = <<>>
        THEN [timetable |-> MarkTimeRangeAsComplete(tt, start, end), pair |-> NoPair]
        ELSE [timetable |-> MarkTokenPairAsComplete(tt, start, end, token_pairs[1].pair),
              pair |-> token_pairs[1].pair]

\* get_token_pair: the first incomplete pair of the range; a range without
\* one is marked complete and None is returned
GetTokenPair(tt, start, end) ==
    LET token_pairs == FetchIncompletedTokenPairs(tt, start, end)
    IN  IF token_pairs = <<>>
        THEN [timetable |-> MarkTimeRangeAsComplete(tt, start, end), pair |-> NoPair]
        ELSE [timetable |-> tt, pair |-> token_pairs[1].pair]

\* save_pool_data on the task store: the task's pair is marked complete, and
\* its range too once no pair of it is incomplete
SavePoolDataStore(tt, prompt) ==
    LET marked == MarkTokenPairAsComplete(tt, prompt.start, prompt.end, prompt.token_pair)
    IN  IF FetchIncompletedTokenPairs(marked, prompt.start, prompt.end) = <<>>
        THEN MarkTimeRangeAsComplete(marked, prompt.start, prompt.end)
        ELSE marked

\* the frame of the task store's steps
StoreFrame ==
    UNCHANGED <<modules_info, futures, miner_answers, miner_results, zipped,
                most_common_hash, trust_miner_results, check_count, saved,
                score_dict, max_allowed_weights, vote_calls,
                completed_out_of_order, drawn, callVars>>

InitStore ==
    /\ pc = "loop"
    /\ fault = "none"
    /\ round_end = "none"
    /\ modules_info = <<>>
    /\ max_allowed_weights = MaxAllowedWeights
    /\ RoundReset
    /\ NoStore
    /\ NoCall

\* validation_loop enters validate_step (lines 531-533, 470-485)
StoreStartRound ==
    /\ pc = "loop"
    /\ pc' = "prompt"
    /\ round_end' = "none"
    /\ store_before' = [timetable |-> timetable, pool_data |-> pool_data]
    /\ miner_prompt' = NoPrompt
    /\ elapsed' = 0
    /\ sleep_time' = 0
    /\ UNCHANGED <<fault, timetable, pool_data>>
    /\ StoreFrame

\* one iteration of get_miner_prompt's loop (lines 352-357)
GetMinerPromptStep ==
    /\ pc = "prompt"
    /\ FetchIncompletedTimeRange(timetable) = <<>> => Len(timetable) < MaxRanges
    /\ \E n \in 0..MaxNewPairs :
          LET time_range == GetTimeRange(timetable, n)
              token_pair == GetTokenPair(time_range.timetable,
                                         time_range.start, time_range.end)
          IN  /\ timetable' = token_pair.timetable
              /\ IF token_pair.pair # NoPair
                 THEN /\ miner_prompt' = [token_pair |-> token_pair.pair,
                                          start |-> time_range.start,
                                          end |-> time_range.end]
                      /\ pc' = "round"
                 ELSE UNCHANGED <<miner_prompt, pc>>
    /\ UNCHANGED <<fault, round_end, pool_data, store_before, paceVars>>
    /\ StoreFrame

\* lines 488-503: no miner gave a usable answer, validate_step returns
RoundNoAnswer ==
    /\ pc = "round"
    /\ pc' = "pace"
    /\ round_end' = "no_valid_answer"
    /\ UNCHANGED <<fault, storeVars, paceVars>>
    /\ StoreFrame

\* line 500 or check_miner_answer raises (KeyError, IndexError)
RoundRaises ==
    /\ pc = "round"
    /\ pc' = "terminated"
    /\ fault' \in {"KeyError", "IndexError"}
    /\ UNCHANGED <<round_end, storeVars, paceVars>>
    /\ StoreFrame

\* lines 508-510: the consensus answer is rejected, validate_step returns
RoundRejected ==
    /\ pc = "round"
    /\ pc' = "pace"
    /\ round_end' = "not_valid"
    /\ UNCHANGED <<fault, storeVars, paceVars>>
    /\ StoreFrame

\* lines 512-514: the answer is accepted and saved, then score_miners raises
RoundAccepted ==
    /\ pc = "round"
    /\ timetable' = SavePoolDataStore(timetable, miner_prompt)
    /\ pool_data' = Append(pool_data, miner_prompt)
    /\ pc' = "terminated"
    /\ fault' = "ValueError"
    /\ UNCHANGED <<round_end, miner_prompt, store_before, paceVars>>
    /\ StoreFrame

\* the validator is started again on the same database (__init__)
Restart ==
    /\ pc = "terminated"
    /\ pc' = "loop"
    /\ fault' = "none"
    /\ UNCHANGED <<round_end, storeVars, paceVars>>
    /\ StoreFrame

NextStore ==
    \/ StoreStartRound
    \/ GetMinerPromptStep
    \/ RoundNoAnswer
    \/ RoundRaises
    \/ RoundRejected
    \/ RoundAccepted
    \/ Pace
    \/ Restart

SpecStore == InitStore /\ [][NextStore]_vars

\* ================================================================ claims

\* validate_step has joined the pool and holds miner_answers
Polled == pc \in {"select", "check", "save", "score", "pace"}
\* validate_step is past line 506
Selected == pc \in {"check", "save", "score", "pace"}
\* the round went on after consensus selection
PastSelection ==
    pc \in {"check", "save", "score"} \/ (pc = "pace" /\ round_end # "no_valid_answer")
\* the check accepted and validate_step is past score_miners
PastScoring == saved # <<>> /\ pc \notin {"save", "score"}

\* C1: the poll yields exactly one outcome per polled worker, and the i-th
\* outcome is the outcome of the i-th worker's own call, paired with the i-th
\* worker id, whatever the order in which the calls completed.
C1_OneOutcomePerWorkerInOrder ==
    /\ Polled =>
          /\ Len(miner_answers) = Len(modules_info)
          /\ \A i \in DOMAIN miner_answers :
                miner_answers[i] = futures[i].result.value
    /\ Selected =>
          /\ Len(zipped) = Len(modules_info)
          /\ \A i \in DOMAIN zipped :
                /\ zipped[i][1] = modules_info[i]
                /\ zipped[i][2] = futures[i].result.value

\* two workers with different outcomes, listed at positions that are not
\* their ids, completed in the reverse of list order
C1_Witness ==
    /\ Selected
    /\ completed_out_of_order
    /\ Len(modules_info) = 2
    /\ modules_info[1] # 1
    /\ zipped[1][2].present
    /\ ~zipped[2][2].present

\* C2: consensus selection and every later stage of a round run only when
\* every call of that round has an outcome: no call is queued or in flight.
C2_NoAggregationWhileInFlight ==
    Polled =>
        /\ DOMAIN futures = DOMAIN modules_info
        /\ \A i \in DOMAIN futures : futures[i].state = "done"

\* selection about to run on a full worker list whose last call finished first
C2_Witness ==
    /\ pc = "select"
    /\ Len(futures) = MaxWorkers
    /\ completed_out_of_order
    /\ futures[MaxWorkers].resp.kind = "object"

\* C3: a transport error, a timeout, an undecodable body or a body that is no
\* JSON object gives that worker an absent reply and nothing else: nothing is
\* raised out of _get_miner_prediction, the poll is not ended by an exception,
\* and every worker's collected outcome depends on its own call only.
C3_FailureIsAbsentReplyOnly ==
    /\ \A i \in DOMAIN futures :
          futures[i].state = "done" =>
             /\ ~futures[i].result.raised
             /\ futures[i].resp.kind \in FailureKinds =>
                   futures[i].result.value = NoneAnswer
    /\ fault # "Exception"
    /\ Polled =>
          \A i \in DOMAIN miner_answers :
             miner_answers[i] = IF futures[i].resp.kind = "object"
                                THEN futures[i].resp.body
                                ELSE NoneAnswer

\* a body that is no JSON object and a timeout around a worker that answered
C3_Witness ==
    /\ Polled
    /\ Len(futures) = 3
    /\ futures[1].resp.kind = "non_object"
    /\ futures[2].resp.kind = "object"
    /\ futures[3].resp.kind = "timeout"
    /\ miner_answers[2] = futures[2].resp.body

\* first position of hash h among the usable replies
FirstIndex(hashes, h) == CHOOSE i \in DOMAIN hashes :
    hashes[i] = h /\ \A j \in 1..(i - 1) : hashes[j] # h

\* C4: the consensus hash has a group of maximal size and, among the hashes
\* of maximal size, is the one that appears earliest in the reply sequence.
C4_EarliestMaximalHashWins ==
    PastSelection =>
        LET hashes == OverallHashes(miner_answers)
        IN  /\ \E i \in DOMAIN hashes : hashes[i] = most_common_hash
            /\ \A i \in DOMAIN hashes :
                  /\ Count(hashes, hashes[i]) <= Count(hashes, most_common_hash)
                  /\ Count(hashes, hashes[i]) = Count(hashes, most_common_hash) =>
                        FirstIndex(hashes, most_common_hash) <= i

\* C5: with every reply absent (or no worker at all) the round ends as
\* no-consensus: no check, no save, no score, no vote.  Whenever the round
\* goes on past selection, trust_miner_results is non-empty and each member
\* is a present reply whose hash is the winning hash.
C5_NoConsensusOrSupportedWinner ==
    /\ (Selected /\ \A i \in DOMAIN miner_answers : ~miner_answers[i].present) =>
          /\ pc = "pace"
          /\ round_end = "no_valid_answer"
          /\ check_count = 0
          /\ saved = <<>>
          /\ score_dict = <<>>
          /\ vote_calls = <<>>
    /\ PastSelection =>
          /\ trust_miner_results # <<>>
          /\ \A k \in DOMAIN trust_miner_results :
                /\ trust_miner_results[k][2].present
                /\ trust_miner_results[k][2].has_hash
                /\ trust_miner_results[k][2].overall_data_hash = most_common_hash

\* every worker of a full list failed: the round ended as no-consensus
C5_Witness ==
    /\ pc = "pace"
    /\ round_end = "no_valid_answer"
    /\ Len(miner_answers) = MaxWorkers
    /\ \A i \in DOMAIN miner_answers : ~miner_answers[i].present

\* C6: a round whose consensus answer the spot check rejected is abandoned:
\* it returns with no save_pool_data call, no score and no vote.
C6_RejectionAbandonsRound ==
    round_end = "not_valid" =>
        /\ pc \in {"pace", "loop"}
        /\ saved = <<>>
        /\ score_dict = <<>>
        /\ vote_calls = <<>>

\* the check rejected after ANSWER_CHECK_COUNT draws without a match
C6_Witness ==
    /\ round_end = "not_valid"
    /\ pc = "pace"
    /\ check_count = ANSWER_CHECK_COUNT - 1
    /\ TrustAnswer.has_data

\* uids of the polled workers whose reply is present
Repliers == {zipped[i][1] : i \in {j \in DOMAIN zipped : zipped[j][2].present}}

\* C7: in a round whose check accepted, score_miners returns, and the workers
\* it scored are exactly the polled workers with a present reply.
C7_ScoredSetIsRepliers ==
    PastScoring =>
        /\ fault = "none"
        /\ {score_dict[i][1] : i \in DOMAIN score_dict} = Repliers

C9_VotePayloadBounded ==
    \A c \in DOMAIN vote_calls :
        /\ Len(vote_calls[c]) <= max_allowed_weights
        /\ \A e \in DOMAIN vote_calls[c] :
              /\ vote_calls[c][e][2] \in Nat
              /\ vote_calls[c][e][2] # 0

\* a vote in which the cap cut a worker and a zero weight was dropped
C9_Witness ==
    /\ pc = "voted"
    /\ Len(score_dict) > max_allowed_weights
    /\ Len(vote_calls[1]) < max_allowed_weights
    /\ vote_calls[1] # <<>>

\* exceptions of score_miners and of set_weights / client.vote
ScoringFaults == {"TypeError", "ValueError", "ZeroDivisionError"}

\* C10: an exception raised inside a round by scoring or by the weight
\* submission does not end validation_loop: the loop is not terminated and
\* can still start the next round.
C10_LoopSurvivesRoundFault == fault \in ScoringFaults => pc # "terminated"

\* the function applied on its own has returned or raised
CallDone == pc \in {"returned", "raised"}

\* C11: when every replying worker has the same process_time (a single
\* replying worker included), the latency stage of score_miners does not
\* fault and gives every replying worker the latency score 1.
C11_EqualLatencyScoresOne ==
    (/\ CallDone
     /\ call_args # <<>>
     /\ \A i, j \in DOMAIN call_args :
           /\ call_args[i][2].present
           /\ call_args[i][2].process_time = call_args[j][2].process_time) =>
        /\ call_result.fault = "none"
        /\ \A i \in DOMAIN call_result.value :
              call_result.value[i][2] = call_result.value[i][3]

\* C12: given an empty score mapping, or one whose scores are all 0,
\* set_weights raises nothing and produces an empty allocation.
C12_EmptyOrZeroScoresGiveEmptyAllocation ==
    (/\ pc \in {"voted", "terminated"}
     /\ \A i \in DOMAIN score_dict : score_dict[i][2] = 0) =>
        /\ fault = "none"
        /\ \A c \in DOMAIN vote_calls : vote_calls[c] = <<>>

\* the ranges and pairs of the store as they were when the round began are
\* still there, pair for pair and flag for flag
PairsKept(before, now) ==
    /\ Len(now) >= Len(before)
    /\ \A i \in DOMAIN before :
          /\ now[i].start = before[i].start
          /\ now[i].end = before[i].end
          /\ now[i].token_pairs = before[i].token_pairs

\* a range's completion flag differs from `was` only by having been set on a
\* range that has no incomplete pair
RangeFlagFrom(range, was) ==
    \/ range.completed = was
    \/ /\ range.completed
       /\ \A k \in DOMAIN range.token_pairs : range.token_pairs[k].completed

\* the task the round was given is still open in the store
TaskStillOpen ==
    \E i \in DOMAIN timetable :
        /\ timetable[i].start = miner_prompt.start
        /\ timetable[i].end = miner_prompt.end
        /\ ~timetable[i].completed
        /\ \E k \in DOMAIN timetable[i].token_pairs :
              /\ timetable[i].token_pairs[k].pair = miner_prompt.token_pair
              /\ ~timetable[i].token_pairs[k].completed

\* C13 (as stated): a round in which no miner gave a usable answer leaves the
\* task store exactly as it was before the round, and no vote is emitted.
C13_NoConsensusLeavesStoreUnchanged ==
    round_end = "no_valid_answer" =>
        /\ timetable = store_before.timetable
        /\ pool_data = store_before.pool_data
        /\ vote_calls = <<>>

\* C13 (amended): a round in which no miner gave a usable answer emits no
\* vote, stores no pool data and completes no token pair: every range and
\* pair the store held before the round is kept with its pair flags, the task
\* handed out is still open, and the only changes are those of fetching the
\* task, namely new time ranges appended and pair-less or exhausted ranges
\* marked complete.
C13_NoConsensusChangesOnlyByTaskFetch ==
    round_end = "no_valid_answer" =>
        /\ vote_calls = <<>>
        /\ pool_data = store_before.pool_data
        /\ PairsKept(store_before.timetable, timetable)
        /\ \A i \in DOMAIN timetable :
              /\ RangeFlagFrom(timetable[i],
                               IF i \in DOMAIN store_before.timetable
                               THEN store_before.timetable[i].completed
                               ELSE FALSE)
              /\ \A k \in DOMAIN timetable[i].token_pairs :
                    i \notin DOMAIN store_before.timetable =>
                        ~timetable[i].token_pairs[k].completed
        /\ TaskStillOpen

\* a no-answer round whose task fetch appended a time range to a store that
\* already held completed work
C13_Witness ==
    /\ round_end = "no_valid_answer"
    /\ store_before.timetable # <<>>
    /\ Len(timetable) > Len(store_before.timetable)
    /\ pool_data # <<>>

\* the record's block number is inside the oracle's [start, end] boundary
InBoundary(record) ==
    /\ record.block_number # NoBlock
    /\ record.block_number >= block_number_start
    /\ record.block_number <= block_number_end

\* the record's transaction hash is among the oracle's for its block number
Matches(record) == record.transaction_hash \in OracleEvents(record.block_number)

\* what the draws made call for: some draw k <= 10 matches, and every draw up
\* to it is inside the boundary
DrawsCallForAccept(draws) ==
    \E k \in DOMAIN draws :
        /\ k <= 10
        /\ Matches(draws[k])
        /\ \A j \in 1..k : InBoundary(draws[j])

CheckAccepted == pc = "save" \/ saved # <<>>
CheckRejected == round_end = "not_valid"

\* C14: on a payload with at least one record, check_miner_answer accepts
\* exactly when some draw k of at most 10 matches the oracle and every draw
\* up to k is inside the boundary; a draw outside the boundary rejects at
\* once, and 10 draws without a match reject.
C14_AcceptIffMatchingDrawInBoundary ==
    drawn # <<>> =>
        /\ Len(drawn) <= 10
        /\ CheckAccepted <=> DrawsCallForAccept(drawn)
        /\ \A k \in DOMAIN drawn :
              ~InBoundary(drawn[k]) => k = Len(drawn) /\ CheckRejected
        /\ (Len(drawn) = 10 /\ ~Matches(drawn[10])) => CheckRejected
        /\ CheckRejected =>
              \/ ~InBoundary(drawn[Len(drawn)])
              \/ Len(drawn) = 10 /\ ~Matches(drawn[10])
        /\ pc = "check" => ~CheckAccepted /\ ~CheckRejected

\* ten draws were made, none matched, and the answer was rejected
C14_Witness ==
    /\ Len(drawn) = 10
    /\ CheckRejected
    /\ InBoundary(drawn[10])

\* C15: a reply that has a payload but no overall_data_hash is left out of
\* consensus selection like an absent reply: it is in no hash group and the
\* round does not fault because of it.
C15_HashlessReplyIsLeftOut ==
    (\E i \in DOMAIN miner_answers :
        miner_answers[i].present /\ ~miner_answers[i].has_hash) =>
        /\ fault = "none"
        /\ \A j \in DOMAIN trust_miner_results : trust_miner_results[j][2].has_hash

\* how many workers of the mapping come before worker i: those with a higher
\* score, and those with the same score earlier in the mapping
Rank(dict, i) ==
    Cardinality({j \in DOMAIN dict :
        \/ dict[j][2] > dict[i][2]
        \/ dict[j][2] = dict[i][2] /\ j < i})

\* the workers that the cap retains
Retained(dict, max_count) == {i \in DOMAIN dict : Rank(dict, i) < max_count}

RECURSIVE SumOfScores(_, _)
SumOfScores(dict, S) ==
    IF S = {} THEN 0
    ELSE LET i == CHOOSE i \in S : TRUE
         IN  dict[i][2] + SumOfScores(dict, S \ {i})

\* int(1000 * score / sum of the retained scores)
RetainedWeight(dict, max_count, i) ==
    (1000 * dict[i][2]) \div SumOfScores(dict, Retained(dict, max_count))

\* C16: whenever set_weights emits a vote, the workers retained are exactly
\* the max_count highest scorers (all if fewer), equal scores going to the
\* worker earlier in the mapping; each retained worker's weight is the
\* integer part of 1000 * score / (sum of the retained scores); a weight of 0
\* is not emitted, the emitted entries are in rank order, and the emitted
\* weights sum to at most 1000.
C16_TopScorersWeighedOverRetainedSum ==
    pc = "voted" =>
        LET vote == vote_calls[1]
            kept == Retained(score_dict, max_allowed_weights)
            emitted == {i \in kept :
                           RetainedWeight(score_dict, max_allowed_weights, i) # 0}
        IN  /\ Cardinality(kept) =
                  IF Len(score_dict) < max_allowed_weights
                  THEN Len(score_dict) ELSE max_allowed_weights
            /\ Len(vote) = Cardinality(emitted)
            /\ \A i \in emitted : \E e \in DOMAIN vote :
                  /\ vote[e][1] = score_dict[i][1]
                  /\ vote[e][2] = RetainedWeight(score_dict, max_allowed_weights, i)
                  /\ e = Cardinality({j \in emitted :
                            Rank(score_dict, j) <= Rank(score_dict, i)})
            /\ SumScores(vote) <= 1000

\* a vote where the cap fell between two workers of equal non-zero score
C16_Witness ==
    /\ pc = "voted"
    /\ vote_calls[1] # <<>>
    /\ \E i, j \in DOMAIN score_dict :
          /\ i < j
          /\ score_dict[i][2] = score_dict[j][2]
          /\ score_dict[i][2] # 0
          /\ i \in Retained(score_dict, max_allowed_weights)
          /\ j \notin Retained(score_dict, max_allowed_weights)

\* validation_loop is between two rounds, the earlier one finished and paced
BetweenRounds == pc = "loop" /\ round_end # "none"

\* C17: rounds do not overlap and are paced: when the loop is about to start
\* the next round every call of the previous round has its outcome, the time
\* since the previous round's start (its duration plus the sleep) is at least
\* iteration_interval, and a round that took iteration_interval or longer is
\* followed by no sleep.
C17_RoundsPacedAndSequential ==
    BetweenRounds =>
        /\ \A i \in DOMAIN futures : futures[i].state = "done"
        /\ elapsed + sleep_time >= iteration_interval
        /\ elapsed >= iteration_interval => sleep_time = 0
        /\ elapsed < iteration_interval => elapsed + sleep_time = iteration_interval

\* the loop is about to start a round after one that overran the interval
C17_Witness ==
    /\ BetweenRounds
    /\ elapsed > iteration_interval
    /\ sleep_time = 0
    /\ futures # <<>>

\* C18: _score_miner gives a score and raises nothing for every worker
\* payload and consensus payload; in particular a worker payload with zero
\* records (total = 0) scores 0.
C18_ZeroRecordPayloadScoresZero ==
    (/\ CallDone
     /\ call_args.miner_answer.present
     /\ call_args.miner_answer.has_data
     /\ call_args.miner_answer.data = <<>>) =>
        /\ pc = "returned"
        /\ call_result.value = 0
\* C19: in a round save_pool_data is called at most once, only after
\* check_miner_answer returned true, and only with the payload of a reply
\* whose hash is the round's consensus hash; after a rejection nothing is
\* saved.
C19_SaveOnceAfterAcceptFromWinningGroup ==
    /\ Len(saved) <= 1
    /\ CheckRejected => saved = <<>>
    /\ saved # <<>> =>
          /\ DrawsCallForAccept(drawn)
          /\ most_common_hash # NoHash
          /\ saved[1].has_hash
          /\ saved[1].overall_data_hash = most_common_hash
          /\ \E i \in DOMAIN miner_answers : miner_answers[i] = saved[1]

\* an answer was saved in a round where another worker replied with a hash
\* that lost
C19_Witness ==
    /\ saved # <<>>
    /\ \E i \in DOMAIN miner_answers :
          /\ miner_answers[i].present
          /\ miner_answers[i].overall_data_hash # most_common_hash

\* C20: check_miner_answer returns accept or reject and raises nothing for
\* every consensus payload; a payload whose record sequence is empty is
\* rejected.
C20_EmptyPayloadIsRejected ==
    (/\ trust_miner_results # <<>>
     /\ TrustAnswer.has_data
     /\ TrustAnswer.data = <<>>
     /\ pc # "check") =>
        /\ fault = "none"
        /\ CheckRejected

\* get_miner_prompt has returned a task and the round has not yet ended
TaskHandedOut == pc = "round"

\* C21: after any sequence of rounds, a time range marked complete has no
\* incomplete token pair; a task that get_miner_prompt returned is a token
\* pair that is incomplete, in a time range that is incomplete; a time range
\* is added only when no range is incomplete, so every range but the last is
\* complete; and each range starts exactly where the one before it ends.
C21_TaskStoreConsistent ==
    /\ \A i \in DOMAIN timetable :
          timetable[i].completed =>
              \A k \in DOMAIN timetable[i].token_pairs :
                  timetable[i].token_pairs[k].completed
    /\ TaskHandedOut => TaskStillOpen
    /\ \A i \in DOMAIN timetable :
          i < Len(timetable) => timetable[i].completed
    /\ \A i \in DOMAIN timetable :
          /\ timetable[i].end = timetable[i].start + 1
          /\ i > 1 => timetable[i].start = timetable[i - 1].end

\* a task handed out from a later range, after the first range's pairs were
\* all saved and the range marked complete
C21_Witness ==
    /\ TaskHandedOut
    /\ Len(timetable) >= 2
    /\ timetable[1].completed
    /\ timetable[1].token_pairs # <<>>
    /\ pool_data # <<>>
    /\ miner_prompt.start = timetable[Len(timetable)].start

====
